---- MODULE Spec2Model ----
(***************************************************************************)
(* Model of the Synchrotron change-aggregation and sync-scheduling engine  *)
(* (lib/Synchrotron.js and its path helpers).                              *)
(*                                                                         *)
(* A POSIX path string is modelled as the sequence of its '/'-separated    *)
(* segments ("a/b" is <<"a","b">>, "." is <<".">>, "/" is <<"","">>).      *)
(* One action is one turn of the JavaScript event loop: the handler that   *)
(* runs, followed by the complete drain of the promise jobs it queued.     *)
(***************************************************************************)
EXTENDS Integers, Sequences, FiniteSets, TLC

\* ---- Bounds ---------------------------------------------------------------

MaxCalls == 3       \* sync() calls issued in one behaviour (retries included)
MaxItems == 1       \* stdout operation lines counted over all runs of one behaviour
MaxDebounce == 9    \* consecutive timer resets in one burst of the debounce timer
MaxBurst == 1       \* consecutive timer resets in one burst while paths are gathered
MaxTimerSyncs == 2  \* sync() calls the debounce timer triggers in one behaviour
MaxListLen == 3     \* paths in one list handed to normalizePathsToSync on its own
MaxSegments == 3    \* '/'-separated segments of a path handed to getParentPaths on its own
MaxSyncEnds == 4    \* syncEnd events the command line handles in one behaviour
MaxSyncedItems == 2 \* itemsSynced of one syncEnd event

\* ---- Paths ----------------------------------------------------------------

Sentinel == <<".">>
Root == <<"", "">>

pA == <<"a">>
pAB == <<"a", "b">>
pABC == <<"a", "b", "c">>
pD == <<"d">>

Paths == {pA, pAB, pABC, pD}

\* Paths the watcher reports events for: a directory, a file two levels below
\* it and an unrelated file.
EventPaths == {pA, pABC, pD}

\* Filesystem states a behaviour runs against: "d" exists, "a" may or may not.
FsStates == {{pD}, {pA, pD}}

\* Path lists a caller passes to sync(); <<Sentinel>> is the default argument.
SyncArgs == {<<Sentinel>>, <<>>, <<pD, pA, pD>>}

\* path.posix.normalize on segments: drops "." and empty segments, resolves
\* "..", keeps a leading empty segment (absolute path) and yields "." for an
\* empty relative result.
RECURSIVE normalizeSegments(_, _, _)
normalizeSegments(segs, out, abs) ==
  IF segs = <<>> THEN out
  ELSE LET s == Head(segs)
           rest == Tail(segs)
       IN IF s = "" \/ s = "." THEN normalizeSegments(rest, out, abs)
          ELSE IF s = ".."
               THEN IF out # <<>> /\ out[Len(out)] # ".."
                    THEN normalizeSegments(rest, SubSeq(out, 1, Len(out) - 1), abs)
                    ELSE IF abs THEN normalizeSegments(rest, out, abs)
                         ELSE normalizeSegments(rest, Append(out, s), abs)
               ELSE normalizeSegments(rest, Append(out, s), abs)

posixNormalize(path) ==
  LET abs == Len(path) > 1 /\ path[1] = ""
      trailing == Len(path) > 1 /\ path[Len(path)] = ""
      body == normalizeSegments(path, <<>>, abs)
  IN IF abs
     THEN IF body = <<>> THEN Root
          ELSE <<"">> \o body \o (IF trailing THEN <<"">> ELSE <<>>)
     ELSE IF body = <<>> THEN (IF trailing THEN <<".", "">> ELSE Sentinel)
          ELSE body \o (IF trailing THEN <<"">> ELSE <<>>)

\* path.posix.dirname
posixDirname(path) ==
  IF Len(path) <= 1 THEN Sentinel
  ELSE IF Len(path) = 2 /\ path[1] = "" THEN Root
       ELSE SubSeq(path, 1, Len(path) - 1)

getParentPaths(path) ==
  LET segs == posixNormalize(path)
      init == SubSeq(segs, 1, Len(segs) - 1)
  IN [i \in 1..Len(init) |->
        IF i = 1
        THEN (IF init[1] = "" THEN Root ELSE <<init[1]>>)
        ELSE SubSeq(init, 1, i - 1) \o <<init[i]>>]

\* Mutant: the first parent probed is returned without an existence test.
getNearestParentUnprobed(fs, path) ==
  IF path \in fs THEN path
  ELSE LET parents == getParentPaths(path)
       IN IF Len(parents) = 0 THEN Sentinel ELSE parents[Len(parents)]

\* accessSync(resolve(basePath, path)) succeeds iff the path exists.  The
\* forEach callback over the reversed parents probes the ORIGINAL path again
\* and its return value is discarded, so the loop contributes nothing.
getNearestExistingPath(fs, path) ==
  IF path \in fs THEN path ELSE Sentinel

SeqRange(s) == {s[i] : i \in 1..Len(s)}

RECURSIVE normalizeLoop(_, _, _, _)
normalizeLoop(fs, pathsToSync, i, normalizedPaths) ==
  IF i > Len(pathsToSync) THEN normalizedPaths
  ELSE LET path == pathsToSync[i]
       IN IF path \in SeqRange(normalizedPaths)
          THEN normalizeLoop(fs, pathsToSync, i + 1, normalizedPaths)
          ELSE LET nearestExistingPath == getNearestExistingPath(fs, path)
               IN IF nearestExistingPath = Sentinel THEN <<Sentinel>>
                  ELSE normalizeLoop(fs, pathsToSync, i + 1,
                         IF nearestExistingPath \in SeqRange(normalizedPaths)
                         THEN normalizedPaths
                         ELSE Append(normalizedPaths, nearestExistingPath))

normalizePathsToSync(fs, pathsToSync) ==
  IF Sentinel \in SeqRange(pathsToSync) THEN <<Sentinel>>
  ELSE normalizeLoop(fs, pathsToSync, 1, <<>>)

\* ---- Constants of Synchrotron.js ------------------------------------------

RSYNC_OPERATION_LABELS == {"del.", "send"}

\* Variant: code 24 (vanished source files) left out of the recoverable set.
RecoverableWithoutVanished == {10, 11, 12, 23}

RSYNC_RECOVERABLE_ERROR_CODES == {10, 11, 12, 23, 24}

\* Exit codes a transfer subprocess is observed to end with.
ExitCodes == {0, 1} \cup {10, 11, 12, 23, 24}

\* stdout lines, already split on ' '.
StdoutLines == {<<"send", "a">>, <<"del.", "a">>, <<"rsync:", "send">>}

\* stderr lines, already split on ' '.
StderrLines == {<<"rsync:", "error">>, <<"send", "a">>}

RSYNC_DEFAULT_ARGS ==
  <<"--compress", "--delete-during", "--delete-excluded", "--delete",
    "--files-from=-", "--force", "--human-readable", "--links",
    "--omit-dir-times", "--out-format=%o %n", "--perms", "--recursive",
    "--times">>

\* The options object a caller hands to the constructor.  "" is an absent
\* ignorePath, 0 an absent maxSyncLimit.
DefaultOptions ==
  [dryRun |-> FALSE, ignorePath |-> "", deleteIgnored |-> FALSE, maxSyncLimit |-> 0]

\* Options naming an ignore file, as the command line passes them.
IgnoreOptions ==
  [dryRun |-> FALSE, ignorePath |-> "/ignore", deleteIgnored |-> TRUE, maxSyncLimit |-> 0]

OptionSets ==
  {DefaultOptions, IgnoreOptions,
   [dryRun |-> TRUE, ignorePath |-> "/ignore", deleteIgnored |-> FALSE, maxSyncLimit |-> 1]}

\* The paths the exclude patterns of the file at ignorePath match.
IgnoredPaths == {pD}

\* Mutant: the filter argument pushed before the dry-run flag.
rsyncArgsFilterFirst(opt) ==
  [i \in DOMAIN RSYNC_DEFAULT_ARGS |-> <<RSYNC_DEFAULT_ARGS[i]>>]
    \o (IF opt.ignorePath # "" THEN <<(<<"--filter=merge,e- ", opt.ignorePath>>)>> ELSE <<>>)
    \o (IF opt.dryRun THEN <<(<<"--dry-run">>)>> ELSE <<>>)
    \o <<(<<"source/">>), (<<"dest">>)>>

\* The argument list handed to spawn(), lines 209-224; the filter argument
\* is the pair of its prefix and this.ignorePath.
rsyncArgs(opt) ==
  [i \in DOMAIN RSYNC_DEFAULT_ARGS |-> <<RSYNC_DEFAULT_ARGS[i]>>]
    \o (IF opt.dryRun THEN <<(<<"--dry-run">>)>> ELSE <<>>)
    \o (IF opt.ignorePath # "" THEN <<(<<"--filter=merge,e- ", opt.ignorePath>>)>> ELSE <<>>)
    \o <<(<<"source/">>), (<<"dest">>)>>

\* debounceMin and debounceMax: the defaults of lines 116-117.
DefaultDebounce == [min |-> 50, max |-> 2000]

\* ---- State ----------------------------------------------------------------

VARIABLES
  calls,          \* sequence of sync() calls in issue order (see NewCall)
  syncPromise,    \* this._syncPromise: 0 is null, else the call whose executor promise it is
  exists,         \* the filesystem under this.source: set of existing paths
  emitted,        \* events emitted during the last event-loop turn, in order
  last,           \* the handler that ran in the last event-loop turn
  pendingSyncPaths,    \* this._pendingSyncPaths: a Set, kept in insertion order
  pendingSyncTimeout,  \* this._pendingSyncTimeout: [armed, delay], unarmed is null
  debounceCount,       \* this._debounceCount
  watcher,             \* this._watcher is set
  debounce,            \* [min, max]: this.debounceMin and this.debounceMax
  reported,       \* history: <<run, itemsSynced>> of every syncEnd emitted so far
  probe,          \* the last application of a path helper: [fn, arg, out]
  options,        \* the options object the constructor was given
  timers,         \* number of setTimeout timers neither fired nor cleared
  cli             \* cliState of bin/cli.js and what it has logged (see CliStart)

vars == <<calls, syncPromise, exists, emitted, last, pendingSyncPaths,
          pendingSyncTimeout, debounceCount, watcher, debounce, reported, probe,
          options, timers, cli>>

syncVars == <<calls, syncPromise>>
watchVars == <<pendingSyncPaths, pendingSyncTimeout, debounceCount, watcher, timers>>

CallIds == 1..Len(calls)

\* st: "await"  suspended at `await this._syncPromise`, on = the awaited call
\*     "run"    executor ran, transfer subprocess alive, promise pending
\*     "retry"  subprocess closed recoverably, promise resolved with this.sync()
\*     "ok"     promise fulfilled with res
\*     "fail"   promise rejected with res
NoResult == [t |-> "none", n |-> 0]
Stats(n) == [t |-> "stats", n |-> n]
ExitError(code) == [t |-> "exit", n |-> code]
SpawnError == [t |-> "spawn", n |-> 0]

\* pathsToSync is the parameter of sync(): the caller's list until the executor
\* runs, the normalized list from line 194 on.
NewCall(origin, pathsToSync, parent) ==
  [origin |-> origin, pathsToSync |-> pathsToSync, parent |-> parent,
   st |-> "new", on |-> 0, started |-> FALSE, spawned |-> FALSE, items |-> 0,
   res |-> NoResult, rsyncArgs |-> <<>>]

Ev(type, id, paths, n) == [type |-> type, id |-> id, paths |-> paths, n |-> n]

Step(op, id, code) == [op |-> op, id |-> id, code |-> code]

\* A turn that ran the watcher's 'all' handler, with the event it was given.
EventStep(eventName, eventPath) ==
  [op |-> "event", id |-> 0, code |-> 0, name |-> eventName, path |-> eventPath]

\* A turn that handled one line of subprocess output.
LineStep(op, id, line) == [op |-> op, id |-> id, code |-> 0, line |-> line]

NoProbe == [fn |-> "none", arg |-> <<>>, out |-> <<>>]

\* cliState of bin/cli.js, lines 19-33, under options.once; reports is the
\* item count of every 'Synced n items' line logged so far, synced is the
\* history of the itemsSynced handed to the syncEnd handler, timers the
\* report timers neither fired nor cleared.
CliStart(once) ==
  [once |-> once, syncCount |-> 0, syncReportDebounceCount |-> 0,
   syncReportItemCount |-> 0, syncReportTimeout |-> [armed |-> FALSE, delay |-> 0],
   reports |-> <<>>, synced |-> 0, timers |-> 0]

isSyncing == syncPromise # 0

Alive(c) == calls[c].st = "run"

RECURSIVE ItemsUpTo(_)
ItemsUpTo(i) == IF i = 0 THEN 0 ELSE calls[i].items + ItemsUpTo(i - 1)

\* ---- sync() ---------------------------------------------------------------
\* The operators below transform S = [calls, sp, ev, fs, opt]: the calls, the
\* value of this._syncPromise, the events emitted so far in this turn, the
\* filesystem, the constructor's options.

\* Variant: the executor without the empty-list shortcut of lines 200-207.
ExecutorAlwaysSpawns(S, c) ==
  LET pathsToSync == normalizePathsToSync(S.fs, S.calls[c].pathsToSync)
  IN [S EXCEPT !.calls[c] = [@ EXCEPT !.st = "run", !.started = TRUE,
                                      !.spawned = TRUE, !.pathsToSync = pathsToSync,
                                      !.rsyncArgs = rsyncArgs(S.opt)],
               !.ev = Append(@, Ev("syncStart", c, pathsToSync, 0)),
               !.sp = c]

\* The promise executor of sync(), lines 190-300, and the assignment of the
\* new promise to this._syncPromise.
Executor(S, c) ==
  LET pathsToSync == normalizePathsToSync(S.fs, S.calls[c].pathsToSync)
      ev1 == Append(S.ev, Ev("syncStart", c, pathsToSync, 0))
  IN IF Len(pathsToSync) = 0
     THEN [S EXCEPT !.calls[c] = [@ EXCEPT !.st = "ok", !.started = TRUE,
                                           !.pathsToSync = pathsToSync, !.res = Stats(0)],
                    !.ev = Append(ev1, Ev("syncEnd", c, pathsToSync, 0)),
                    !.sp = c]
     ELSE [S EXCEPT !.calls[c] = [@ EXCEPT !.st = "run", !.started = TRUE,
                                           !.spawned = TRUE, !.pathsToSync = pathsToSync,
                                           !.rsyncArgs = rsyncArgs(S.opt)],
                    !.ev = ev1,
                    !.sp = c]

\* One call of the async method sync(): lines 183-188 then the executor.
Sync(S, origin, pathsToSync, parent) ==
  LET c == Len(S.calls) + 1
      S1 == [S EXCEPT !.calls = Append(@, NewCall(origin, pathsToSync, parent))]
  IN IF S.sp = 0 THEN Executor(S1, c)
     ELSE LET awaited == S.calls[S.sp]
          IN IF awaited.st \in {"run", "retry"}
             THEN [S1 EXCEPT !.calls[c].st = "await", !.calls[c].on = S.sp]
             ELSE IF awaited.st = "ok"
                  THEN Executor(S1, c)
                  ELSE [S1 EXCEPT !.calls[c].st = "fail", !.calls[c].res = awaited.res]

\* Continuations of every call suspended on the promise of call k, in the
\* order they subscribed.  A fulfilled await falls through to the executor
\* without looking at this._syncPromise again; a rejected await throws.
RECURSIVE Resume(_, _, _, _, _)
Resume(S, k, i, outcome, res) ==
  IF i > Len(S.calls) THEN S
  ELSE IF S.calls[i].st = "await" /\ S.calls[i].on = k
       THEN Resume(IF outcome = "ok"
                   THEN Executor(S, i)
                   ELSE [S EXCEPT !.calls[i].st = "fail", !.calls[i].res = res],
                   k, i + 1, outcome, res)
       ELSE Resume(S, k, i + 1, outcome, res)

\* Mutant: the promise of a retried run left out of the settlement of its retry.
SettleWithoutRetried(S, k, outcome, res) ==
  Resume([S EXCEPT !.calls[k].st = outcome, !.calls[k].res = res], k, 1, outcome, res)

\* The promise of call k settles: its waiters resume, then the promise of the
\* run it retried (which was resolved with it) settles the same way.
RECURSIVE Settle(_, _, _, _)
Settle(S, k, outcome, res) ==
  LET S1 == [S EXCEPT !.calls[k].st = outcome, !.calls[k].res = res]
      S2 == Resume(S1, k, 1, outcome, res)
      p == S.calls[k].parent
  IN IF p = 0 THEN S2 ELSE Settle(S2, p, outcome, res)

\* Variant: every nonzero exit code is retried.
closeHandlerRetriesAll(S, c, code) ==
  LET S0 == [S EXCEPT !.sp = 0]
  IN IF code = 0
     THEN Settle([S0 EXCEPT !.ev = Append(@, Ev("syncEnd", c, S.calls[c].pathsToSync,
                                                 S.calls[c].items))],
                 c, "ok", Stats(S.calls[c].items))
     ELSE Sync([S0 EXCEPT !.ev = Append(@, Ev("warning", c, <<>>, code)),
                          !.calls[c].st = "retry"],
               "retry", <<Sentinel>>, c)

\* Variant: a successful exit resolves with fresh stats instead of the run's.
closeHandlerFreshStats(S, c, code) ==
  LET S0 == [S EXCEPT !.sp = 0]
  IN IF code = 0
     THEN Settle([S0 EXCEPT !.ev = Append(@, Ev("syncEnd", c, S.calls[c].pathsToSync,
                                                 S.calls[c].items))],
                 c, "ok", Stats(0))
     ELSE IF code \in RSYNC_RECOVERABLE_ERROR_CODES
          THEN Sync([S0 EXCEPT !.ev = Append(@, Ev("warning", c, <<>>, code)),
                               !.calls[c].st = "retry"],
                    "retry", <<Sentinel>>, c)
          ELSE Settle([S0 EXCEPT !.ev = Append(@, Ev("error", c, <<>>, code))],
                      c, "fail", ExitError(code))

\* Mutant: the close handler emitting syncEnd for a recoverable exit as well.
closeHandlerEndsRecoverable(S, c, code) ==
  LET S0 == [S EXCEPT !.sp = 0]
      ended == Ev("syncEnd", c, S.calls[c].pathsToSync, S.calls[c].items)
  IN IF code = 0
     THEN Settle([S0 EXCEPT !.ev = Append(@, ended)], c, "ok", Stats(S.calls[c].items))
     ELSE IF code \in RSYNC_RECOVERABLE_ERROR_CODES
          THEN Sync([S0 EXCEPT !.ev = Append(Append(@, ended), Ev("warning", c, <<>>, code)),
                               !.calls[c].st = "retry"],
                    "retry", <<Sentinel>>, c)
          ELSE Settle([S0 EXCEPT !.ev = Append(@, Ev("error", c, <<>>, code))],
                      c, "fail", ExitError(code))

\* rsync.on('close'), lines 265-291.
closeHandler(S, c, code) ==
  LET S0 == [S EXCEPT !.sp = 0]
  IN IF code = 0
     THEN Settle([S0 EXCEPT !.ev = Append(@, Ev("syncEnd", c, S.calls[c].pathsToSync,
                                                 S.calls[c].items))],
                 c, "ok", Stats(S.calls[c].items))
     ELSE IF code \in RSYNC_RECOVERABLE_ERROR_CODES
          THEN Sync([S0 EXCEPT !.ev = Append(@, Ev("warning", c, <<>>, code)),
                               !.calls[c].st = "retry"],
                    "retry", <<Sentinel>>, c)
          ELSE Settle([S0 EXCEPT !.ev = Append(@, Ev("error", c, <<>>, code))],
                      c, "fail", ExitError(code))

\* Variant: the error handler without `this._syncPromise = null`.
errorHandlerKeepsPromise(S, c) ==
  Settle(S, c, "fail", SpawnError)

\* rsync.on('error'), lines 293-296.
errorHandler(S, c) ==
  Settle([S EXCEPT !.sp = 0], c, "fail", SpawnError)

\* Mutant: the stdout handler counting every line as a synced item.
stdoutHandlerCountsAll(S, c, line) ==
  LET operation == line[1]
  IN IF operation \in RSYNC_OPERATION_LABELS
     THEN [S EXCEPT !.calls[c].items = @ + 1,
                    !.ev = Append(@, Ev("rsyncStdout", c, <<SubSeq(line, 2, Len(line))>>, 1))]
     ELSE [S EXCEPT !.calls[c].items = @ + 1,
                    !.ev = Append(@, Ev("rsyncStdout", c, <<line>>, 0))]

\* readline 'line' handler on stderr, lines 258-263.
stderrHandler(S, c, line) ==
  [S EXCEPT !.ev = Append(@, Ev("rsyncStderr", c, <<line>>, 0))]

\* readline 'line' handler on stdout, lines 234-256.
stdoutHandler(S, c, line) ==
  LET operation == line[1]
  IN IF operation \in RSYNC_OPERATION_LABELS
     THEN [S EXCEPT !.calls[c].items = @ + 1,
                    !.ev = Append(@, Ev("rsyncStdout", c, <<SubSeq(line, 2, Len(line))>>, 1))]
     ELSE [S EXCEPT !.ev = Append(@, Ev("rsyncStdout", c, <<line>>, 0))]

Now == [calls |-> calls, sp |-> syncPromise, ev |-> <<>>, fs |-> exists,
        opt |-> options]

Commit(S) ==
  /\ calls' = S.calls
  /\ syncPromise' = S.sp
  /\ emitted' = S.ev
  /\ reported' = reported \cup {<<S.ev[i].id, S.ev[i].n>> :
                                 i \in {j \in 1..Len(S.ev) : S.ev[j].type = "syncEnd"}}

\* ---- Actions --------------------------------------------------------------

NoTimeout == [armed |-> FALSE, delay |-> 0]

\* The state the constructor leaves, lines 112-143, on one of the given
\* filesystem states and with one of the given options objects.
ConstructedWith(config, fsStates, optionSets) ==
  /\ calls = <<>>
  /\ syncPromise = 0
  /\ exists \in fsStates
  /\ emitted = <<>>
  /\ last = Step("init", 0, 0)
  /\ pendingSyncPaths = <<>>
  /\ pendingSyncTimeout = NoTimeout
  /\ debounceCount = 0
  /\ watcher = FALSE
  /\ debounce = config
  /\ reported = {}
  /\ probe = NoProbe
  /\ options \in optionSets
  /\ timers = 0
  /\ cli = CliStart(FALSE)

ConstructedOn(config, fsStates) == ConstructedWith(config, fsStates, {DefaultOptions})

Constructed(config) == ConstructedOn(config, FsStates)

Init == Constructed(DefaultDebounce)

\* A caller invokes sync(args).
SyncCall(args) ==
  /\ Len(calls) < MaxCalls
  /\ Commit(Sync(Now, "api", args, 0))
  /\ last' = Step("sync", Len(calls) + 1, 0)
  /\ UNCHANGED <<exists, debounce, options, cli, probe, watchVars>>

\* The subprocess of run c writes one line to stdout.
StdoutLine(c, line) ==
  /\ Alive(c)
  /\ line[1] \in RSYNC_OPERATION_LABELS => ItemsUpTo(Len(calls)) < MaxItems
  /\ Commit(stdoutHandler(Now, c, line))
  /\ last' = LineStep("stdout", c, line)
  /\ UNCHANGED <<exists, debounce, options, cli, probe, watchVars>>

\* The subprocess of run c exits with the given code.
Close(c, code) ==
  /\ Alive(c)
  /\ code \in RSYNC_RECOVERABLE_ERROR_CODES => Len(calls) < MaxCalls
  /\ Commit(closeHandler(Now, c, code))
  /\ last' = Step("close", c, code)
  /\ UNCHANGED <<exists, debounce, options, cli, probe, watchVars>>

\* Spawning the subprocess of run c fails.
Error(c) ==
  /\ Alive(c)
  /\ calls[c].items = 0
  /\ Commit(errorHandler(Now, c))
  /\ last' = Step("error", c, 0)
  /\ UNCHANGED <<exists, debounce, options, cli, probe, watchVars>>

Next ==
  \/ \E args \in SyncArgs : SyncCall(args)
  \/ \E c \in CallIds, line \in StdoutLines : StdoutLine(c, line)
  \/ \E c \in CallIds, code \in ExitCodes : Close(c, code)
  \/ \E c \in CallIds : Error(c)

Spec == Init /\ [][Next]_vars

\* The subprocess of run c writes one line to stderr.
StderrLine(c, line) ==
  /\ Alive(c)
  /\ Commit(stderrHandler(Now, c, line))
  /\ last' = LineStep("stderr", c, line)
  /\ UNCHANGED <<exists, debounce, options, cli, probe, watchVars>>

\* sync() with the subprocess writing to both of its output streams.
NextOutput ==
  \/ Next
  \/ \E c \in CallIds, line \in StderrLines : StderrLine(c, line)

SpecOutput == Init /\ [][NextOutput]_vars

\* sync() under every options object of OptionSets.
InitOptions == ConstructedWith(DefaultDebounce, FsStates, OptionSets)

SpecOptions == InitOptions /\ [][Next]_vars

\* ---- watch(), unwatch() and the debounce timer -----------------------------
\* The operators below transform W = [pending, timeout, count, ev, timers]:
\* the pending set, the timer this._pendingSyncTimeout refers to, the reset
\* counter, the events emitted this turn, the number of live timers.

EventNames == {"add", "addDir", "change", "unlink", "unlinkDir"}

DebounceConfigs == {DefaultDebounce, [min |-> 3, max |-> 10], [min |-> 20, max |-> 5],
                    [min |-> 0, max |-> 10]}

RECURSIVE Pow(_, _)
Pow(b, n) == IF n = 0 THEN 1 ELSE b * Pow(b, n - 1)

\* Mutant: the delay of line 388 with Math.floor for Math.round.
debounceDelayTruncated(min, max, count) ==
  LET num == min * Pow(3, count)
      den == Pow(2, count)
  IN IF num >= max * den THEN max
     ELSE num \div den

\* Mutant: the delay of line 388 without Math.min.
debounceDelayUncapped(min, max, count) ==
  (2 * min * Pow(3, count) + Pow(2, count)) \div (2 * Pow(2, count))

\* Math.round(Math.min(max, min * Math.pow(1.5, count))), line 388, on
\* integers: 1.5^count = 3^count / 2^count, and round is floor(x + 1/2).
debounceDelay(min, max, count) ==
  LET num == min * Pow(3, count)
      den == Pow(2, count)
  IN IF num >= max * den THEN max
     ELSE (2 * num + den) \div (2 * den)

\* Set.prototype.add and Set.prototype.delete on an insertion-ordered set.
SetAdd(s, x) == IF x \in SeqRange(s) THEN s ELSE Append(s, x)
SetDelete(s, x) == LET Keep(e) == e # x IN SelectSeq(s, Keep)

\* Mutant: _scheduleSync() without the clearTimeout of line 375.
scheduleSyncKeepsOldTimer(W, cfg) ==
  LET armed == W.timeout.armed
      count == IF armed THEN W.count + 1 ELSE 0
  IN [W EXCEPT !.count = count,
               !.ev = IF armed /\ count >= 8
                      THEN Append(@, Ev("debounce", 0, <<>>, Len(W.pending)))
                      ELSE @,
               !.timeout = [armed |-> TRUE,
                            delay |-> debounceDelay(cfg.min, cfg.max, count)],
               !.timers = @ + 1]

\* Mutant: _scheduleSync() emitting debounce only above a count of 8.
scheduleSyncLateDebounce(W, cfg) ==
  LET armed == W.timeout.armed
      count == IF armed THEN W.count + 1 ELSE 0
  IN [W EXCEPT !.count = count,
               !.ev = IF armed /\ count > 8
                      THEN Append(@, Ev("debounce", 0, <<>>, Len(W.pending)))
                      ELSE @,
               !.timeout = [armed |-> TRUE,
                            delay |-> debounceDelay(cfg.min, cfg.max, count)],
               !.timers = (IF armed THEN @ - 1 ELSE @) + 1]

\* _scheduleSync(), lines 373-390: everything but the timer callback.
scheduleSync(W, cfg) ==
  LET armed == W.timeout.armed
      count == IF armed THEN W.count + 1 ELSE 0
  IN [W EXCEPT !.count = count,
               !.ev = IF armed /\ count >= 8
                      THEN Append(@, Ev("debounce", 0, <<>>, Len(W.pending)))
                      ELSE @,
               !.timeout = [armed |-> TRUE,
                            delay |-> debounceDelay(cfg.min, cfg.max, count)],
               !.timers = (IF armed THEN @ - 1 ELSE @) + 1]

\* Mutant: the 'all' handler without the early return of lines 339-343.
allHandlerIgnoresSentinel(W, cfg, eventName, eventPath) ==
  LET parents == getParentPaths(eventPath)
      pending ==
        IF eventName \in {"add", "addDir", "change"}
        THEN IF \E i \in DOMAIN parents : parents[i] \in SeqRange(W.pending)
             THEN W.pending
             ELSE SetAdd(W.pending, eventPath)
        ELSE IF eventName \in {"unlink", "unlinkDir"}
             THEN SetAdd(SetDelete(W.pending, eventPath), posixDirname(eventPath))
             ELSE W.pending
      W1 == [W EXCEPT !.pending = pending]
  IN IF Len(pending) > 0 THEN scheduleSync(W1, cfg) ELSE W1

\* Mutant: the 'all' handler dropping events for ignored paths.
allHandlerFiltersIgnored(W, cfg, eventName, eventPath) ==
  IF Sentinel \in SeqRange(W.pending) \/ eventPath \in IgnoredPaths THEN W
  ELSE LET parents == getParentPaths(eventPath)
           pending ==
             IF eventName \in {"add", "addDir", "change"}
             THEN IF \E i \in DOMAIN parents : parents[i] \in SeqRange(W.pending)
                  THEN W.pending
                  ELSE SetAdd(W.pending, eventPath)
             ELSE IF eventName \in {"unlink", "unlinkDir"}
                  THEN SetAdd(SetDelete(W.pending, eventPath), posixDirname(eventPath))
                  ELSE W.pending
           W1 == [W EXCEPT !.pending = pending]
       IN IF Len(pending) > 0 THEN scheduleSync(W1, cfg) ELSE W1

\* Mutant: the 'all' handler adding the path without testing its parents.
allHandlerIgnoresParents(W, cfg, eventName, eventPath) ==
  IF Sentinel \in SeqRange(W.pending) THEN W
  ELSE LET pending ==
             IF eventName \in {"add", "addDir", "change"}
             THEN SetAdd(W.pending, eventPath)
             ELSE IF eventName \in {"unlink", "unlinkDir"}
                  THEN SetAdd(SetDelete(W.pending, eventPath), posixDirname(eventPath))
                  ELSE W.pending
           W1 == [W EXCEPT !.pending = pending]
       IN IF Len(pending) > 0 THEN scheduleSync(W1, cfg) ELSE W1

\* Mutant: the 'all' handler leaving a deleted path in the pending set.
allHandlerKeepsDeleted(W, cfg, eventName, eventPath) ==
  IF Sentinel \in SeqRange(W.pending) THEN W
  ELSE LET parents == getParentPaths(eventPath)
           pending ==
             IF eventName \in {"add", "addDir", "change"}
             THEN IF \E i \in DOMAIN parents : parents[i] \in SeqRange(W.pending)
                  THEN W.pending
                  ELSE SetAdd(W.pending, eventPath)
             ELSE IF eventName \in {"unlink", "unlinkDir"}
                  THEN SetAdd(W.pending, posixDirname(eventPath))
                  ELSE W.pending
           W1 == [W EXCEPT !.pending = pending]
       IN IF Len(pending) > 0 THEN scheduleSync(W1, cfg) ELSE W1

\* The watcher's 'all' handler, lines 336-369.
allHandler(W, cfg, eventName, eventPath) ==
  IF Sentinel \in SeqRange(W.pending) THEN W
  ELSE LET parents == getParentPaths(eventPath)
           pending ==
             IF eventName \in {"add", "addDir", "change"}
             THEN IF \E i \in DOMAIN parents : parents[i] \in SeqRange(W.pending)
                  THEN W.pending
                  ELSE SetAdd(W.pending, eventPath)
             ELSE IF eventName \in {"unlink", "unlinkDir"}
                  THEN SetAdd(SetDelete(W.pending, eventPath), posixDirname(eventPath))
                  ELSE W.pending
           W1 == [W EXCEPT !.pending = pending]
       IN IF Len(pending) > 0 THEN scheduleSync(W1, cfg) ELSE W1

WNow == [pending |-> pendingSyncPaths, timeout |-> pendingSyncTimeout,
         count |-> debounceCount, ev |-> <<>>, timers |-> timers]

WCommit(W) ==
  /\ pendingSyncPaths' = W.pending
  /\ pendingSyncTimeout' = W.timeout
  /\ debounceCount' = W.count
  /\ emitted' = W.ev
  /\ timers' = W.timers

InitWatch == Constructed(DefaultDebounce)

\* watch(), lines 321-334.
Watch ==
  /\ watcher' = TRUE
  /\ emitted' = <<>>
  /\ last' = Step("watch", 0, 0)
  /\ UNCHANGED <<syncVars, exists, debounce, options, cli, reported, probe,
                 pendingSyncPaths, pendingSyncTimeout, debounceCount, timers>>

\* Mutant: unwatch() also abandoning the sync in progress.
UnwatchAbandonsSync ==
  /\ watcher' = (IF watcher THEN FALSE ELSE watcher)
  /\ emitted' = <<>>
  /\ last' = Step("unwatch", 0, 0)
  /\ syncPromise' = 0
  /\ calls' = [c \in CallIds |->
                 IF Alive(c) THEN [calls[c] EXCEPT !.st = "fail", !.res = SpawnError]
                 ELSE calls[c]]
  /\ UNCHANGED <<exists, debounce, options, cli, reported, probe,
                 pendingSyncPaths, pendingSyncTimeout, debounceCount, timers>>

\* unwatch(), lines 308-313.
Unwatch ==
  /\ watcher' = (IF watcher THEN FALSE ELSE watcher)
  /\ emitted' = <<>>
  /\ last' = Step("unwatch", 0, 0)
  /\ UNCHANGED <<syncVars, exists, debounce, options, cli, reported, probe,
                 pendingSyncPaths, pendingSyncTimeout, debounceCount, timers>>

\* The watcher reports an event for a path under the source directory; at
\* most maxResets consecutive events reset the timer.
WatchEvent(eventName, eventPath, maxResets) ==
  /\ watcher
  /\ pendingSyncTimeout.armed => debounceCount < maxResets
  /\ WCommit(allHandler(WNow, debounce, eventName, eventPath))
  /\ last' = EventStep(eventName, eventPath)
  /\ UNCHANGED <<syncVars, exists, debounce, options, cli, reported, probe, watcher>>

\* Mutant: the timer callback without the isSyncing test of lines 393-397.
TimerFireIgnoresSyncing ==
  /\ timers > 0
  /\ Len(calls) < MaxCalls
  /\ Commit(Sync(Now, "timer", pendingSyncPaths, 0))
  /\ pendingSyncPaths' = <<>>
  /\ pendingSyncTimeout' = NoTimeout
  /\ timers' = timers - 1
  /\ UNCHANGED debounceCount
  /\ last' = Step("timer", 0, 0)
  /\ UNCHANGED <<exists, debounce, options, cli, probe, watcher>>

\* Mutant: the timer callback clearing the pending set before it calls sync().
TimerFireClearsFirst ==
  /\ timers > 0
  /\ IF isSyncing
     THEN /\ WCommit(scheduleSync([WNow EXCEPT !.timeout = NoTimeout, !.timers = @ - 1],
                                  debounce))
          /\ UNCHANGED <<syncVars, reported>>
     ELSE /\ Len(calls) < MaxTimerSyncs
          /\ Commit(Sync(Now, "timer", <<>>, 0))
          /\ pendingSyncPaths' = <<>>
          /\ pendingSyncTimeout' = NoTimeout
          /\ timers' = timers - 1
          /\ UNCHANGED debounceCount
  /\ last' = Step("timer", 0, 0)
  /\ UNCHANGED <<exists, debounce, options, cli, probe, watcher>>

\* Mutant: the timer callback without the clear() of line 400.
TimerFireKeepsPending ==
  /\ timers > 0
  /\ IF isSyncing
     THEN /\ WCommit(scheduleSync([WNow EXCEPT !.timeout = NoTimeout, !.timers = @ - 1],
                                  debounce))
          /\ UNCHANGED <<syncVars, reported>>
     ELSE /\ Len(calls) < MaxTimerSyncs
          /\ Commit(Sync(Now, "timer", pendingSyncPaths, 0))
          /\ pendingSyncTimeout' = NoTimeout
          /\ timers' = timers - 1
          /\ UNCHANGED <<pendingSyncPaths, debounceCount>>
  /\ last' = Step("timer", 0, 0)
  /\ UNCHANGED <<exists, debounce, options, cli, probe, watcher>>

\* Mutant: the timer callback returning during a sync without _scheduleSync().
TimerFireDropsWhileSyncing ==
  /\ timers > 0
  /\ IF isSyncing
     THEN /\ WCommit([WNow EXCEPT !.timeout = NoTimeout, !.timers = @ - 1])
          /\ UNCHANGED <<syncVars, reported>>
     ELSE /\ Len(calls) < MaxTimerSyncs
          /\ Commit(Sync(Now, "timer", pendingSyncPaths, 0))
          /\ pendingSyncPaths' = <<>>
          /\ pendingSyncTimeout' = NoTimeout
          /\ timers' = timers - 1
          /\ UNCHANGED debounceCount
  /\ last' = Step("timer", 0, 0)
  /\ UNCHANGED <<exists, debounce, options, cli, probe, watcher>>

\* The debounce timer elapses: the setTimeout callback, lines 390-401.
TimerFire ==
  /\ timers > 0
  /\ IF isSyncing
     THEN /\ WCommit(scheduleSync([WNow EXCEPT !.timeout = NoTimeout, !.timers = @ - 1],
                                  debounce))
          /\ UNCHANGED <<syncVars, reported>>
     ELSE /\ Len(calls) < MaxTimerSyncs
          /\ Commit(Sync(Now, "timer", pendingSyncPaths, 0))
          /\ pendingSyncPaths' = <<>>
          /\ pendingSyncTimeout' = NoTimeout
          /\ timers' = timers - 1
          /\ UNCHANGED debounceCount
  /\ last' = Step("timer", 0, 0)
  /\ UNCHANGED <<exists, debounce, options, cli, probe, watcher>>

NextWatch ==
  \/ Watch
  \/ Unwatch
  \/ \E eventName \in EventNames, eventPath \in EventPaths :
       WatchEvent(eventName, eventPath, MaxBurst)
  \/ TimerFire
  \/ \E c \in CallIds, code \in ExitCodes : Close(c, code)
  \/ \E c \in CallIds : Error(c)

SpecWatch == InitWatch /\ [][NextWatch]_vars

\* The watcher under every debounce configuration, with bursts of up to
\* MaxDebounce resets of the timer by events for one file.
InitDebounce ==
  \E config \in DebounceConfigs : ConstructedWith(config, {{pD}}, {IgnoreOptions})

NextDebounce ==
  \/ Watch
  \/ Unwatch
  \/ \E eventName \in EventNames : WatchEvent(eventName, pD, MaxDebounce)
  \/ TimerFire
  \/ \E c \in CallIds, code \in ExitCodes : Close(c, code)
  \/ \E c \in CallIds : Error(c)

SpecDebounce == InitDebounce /\ [][NextDebounce]_vars

\* The watcher next to at most one caller of sync(), with the fairness the
\* event loop and the operating system give: an armed timer eventually fires
\* and a spawned subprocess eventually exits.  Events arrive in one burst and
\* then stop, and no run is retried, so that no bound of the model ever keeps
\* the timer callback from calling sync().
LiveExitCodes == {0, 1}

InitLive == Constructed(DefaultDebounce)

ProcessExits == \E c \in CallIds, code \in LiveExitCodes : Close(c, code)

NextLive ==
  \/ Watch
  \/ \E args \in SyncArgs : Len(calls) = 0 /\ SyncCall(args)
  \/ \E eventName \in EventNames, eventPath \in EventPaths :
       /\ \A c \in CallIds : calls[c].origin # "timer"
       /\ pendingSyncTimeout.armed => last.op = "event"
       /\ WatchEvent(eventName, eventPath, MaxBurst)
  \/ TimerFire
  \/ ProcessExits
  \/ \E c \in CallIds : Error(c)

SpecLive ==
  InitLive /\ [][NextLive]_vars /\ WF_vars(TimerFire) /\ WF_vars(ProcessExits)

\* ---- The path helpers on their own ---------------------------------------

\* Filesystems in which every existing path has existing parents.
ProbeFsStates ==
  {fs \in SUBSET Paths :
     \A p \in fs : SeqRange(getParentPaths(p)) \subseteq fs}

ProbePaths == Paths \cup {Sentinel}

PathLists == UNION {[1..n -> ProbePaths] : n \in 0..MaxListLen}

InitPaths == ConstructedOn(DefaultDebounce, ProbeFsStates)

\* getNearestExistingPath(basePath, path) is called.
ProbeNearest(path) ==
  /\ probe' = [fn |-> "nearest", arg |-> <<path>>,
               out |-> <<getNearestExistingPath(exists, path)>>]
  /\ last' = Step("probe", 0, 0)
  /\ UNCHANGED <<syncVars, exists, emitted, debounce, options, cli, reported, watchVars>>

\* normalizePathsToSync(basePath, pathsToSync) is called.
ProbeNormalize(pathsToSync) ==
  /\ probe' = [fn |-> "normalize", arg |-> pathsToSync,
               out |-> normalizePathsToSync(exists, pathsToSync)]
  /\ last' = Step("probe", 0, 0)
  /\ UNCHANGED <<syncVars, exists, emitted, debounce, options, cli, reported, watchVars>>

NextPaths ==
  \/ \E path \in ProbePaths : ProbeNearest(path)
  \/ \E pathsToSync \in PathLists : ProbeNormalize(pathsToSync)

SpecPaths == InitPaths /\ [][NextPaths]_vars

\* getParentPaths on its own, over every path string of up to MaxSegments
\* segments: relative and absolute, with empty, "." and ".." segments.
RawSegments == {"a", "b", "..", ".", ""}

RawPaths == UNION {[1..n -> RawSegments] : n \in 1..MaxSegments}

InitParents == ConstructedOn(DefaultDebounce, {{pD}})

\* getParentPaths(path) is called.
ProbeParents(path) ==
  /\ probe' = [fn |-> "parents", arg |-> <<path>>, out |-> getParentPaths(path)]
  /\ last' = Step("probe", 0, 0)
  /\ UNCHANGED <<syncVars, exists, emitted, debounce, options, cli, reported, watchVars>>

NextParents == \E path \in RawPaths : ProbeParents(path)

SpecParents == InitParents /\ [][NextParents]_vars

\* ---- Sync reports of the command line ------------------------------------

\* Mutant: the report logged without resetting the accumulated count.
logSyncReportKeepsCount(K) ==
  IF K.syncReportItemCount = 0 /\ ~K.once THEN K
  ELSE [K EXCEPT !.reports = Append(@, K.syncReportItemCount)]

\* logSyncReport(state), cli.js lines 138-159.
logSyncReport(K) ==
  IF K.syncReportItemCount = 0 /\ ~K.once THEN K
  ELSE [K EXCEPT !.reports = Append(@, K.syncReportItemCount),
                 !.syncReportItemCount = 0]

\* Math.round(Math.min(2000, 1000 * Math.pow(1.2, count))), line 265.
syncReportDelay(count) ==
  LET num == 1000 * Pow(12, count)
      den == Pow(10, count)
  IN IF num >= 2000 * den THEN 2000
     ELSE (2 * num + den) \div (2 * den)

\* scheduleSyncReport(state), lines 251-271.
scheduleSyncReport(K) ==
  IF K.syncCount = 1 THEN logSyncReport(K)
  ELSE LET K1 == IF K.syncReportTimeout.armed
                 THEN [K EXCEPT !.timers = @ - 1, !.syncReportDebounceCount = @ + 1]
                 ELSE [K EXCEPT !.syncReportDebounceCount = 0]
       IN [K1 EXCEPT !.syncReportTimeout =
                       [armed |-> TRUE, delay |-> syncReportDelay(K1.syncReportDebounceCount)],
                     !.timers = @ + 1]

\* The 'syncEnd' listener, lines 85-97.
syncEndListener(K, itemsSynced) ==
  LET K1 == [K EXCEPT !.syncCount = @ + 1]
  IN IF itemsSynced = 0 /\ ~K.once THEN K1
     ELSE scheduleSyncReport([K1 EXCEPT !.syncReportItemCount = @ + itemsSynced])

\* The callback of the report timer, lines 267-270.
syncReportCallback(K) ==
  logSyncReport([K EXCEPT !.syncReportTimeout = [armed |-> FALSE, delay |-> 0],
                          !.timers = @ - 1])

\* The command line in watch mode and under --once.
InitCli ==
  /\ calls = <<>>
  /\ syncPromise = 0
  /\ exists = {pD}
  /\ emitted = <<>>
  /\ last = Step("init", 0, 0)
  /\ pendingSyncPaths = <<>>
  /\ pendingSyncTimeout = NoTimeout
  /\ debounceCount = 0
  /\ watcher = FALSE
  /\ debounce = DefaultDebounce
  /\ reported = {}
  /\ probe = NoProbe
  /\ options = DefaultOptions
  /\ timers = 0
  /\ cli \in {CliStart(once) : once \in BOOLEAN}

\* A syncEnd event with the given stats.itemsSynced reaches the listener;
\* under --once nothing is watched and only the one sync() of main() ends.
CliSyncEnd(itemsSynced) ==
  /\ cli.syncCount < MaxSyncEnds
  /\ cli.once => cli.syncCount = 0
  /\ cli' = [syncEndListener(cli, itemsSynced) EXCEPT !.synced = @ + itemsSynced]
  /\ last' = Step("syncEnd", 0, itemsSynced)
  /\ UNCHANGED <<syncVars, exists, emitted, debounce, options, reported, probe, watchVars>>

\* The report timer elapses.
CliReportTimer ==
  /\ cli.timers > 0
  /\ cli' = syncReportCallback(cli)
  /\ last' = Step("report", 0, 0)
  /\ UNCHANGED <<syncVars, exists, emitted, debounce, options, reported, probe, watchVars>>

NextCli ==
  \/ \E itemsSynced \in 0..MaxSyncedItems : CliSyncEnd(itemsSynced)
  \/ CliReportTimer

SpecCli == InitCli /\ [][NextCli]_vars

\* ---- coalesce_changes of the Ruby implementation --------------------------

\* Absolute paths FSEvents reports: the root, a directory, two levels below
\* it and an unrelated directory.
RubyPaths == {Root, <<"", "a">>, <<"", "a", "b">>, <<"", "a", "b", "c">>, <<"", "d">>}

ChangeLists == UNION {[1..n -> RubyPaths] : n \in 0..MaxListLen}

\* Pathname#descend: the path's ancestors from the root down, then the path.
descend(path) ==
  IF path = Root THEN <<Root>>
  ELSE IF path[1] = ""
       THEN <<Root>> \o [i \in 1..(Len(path) - 1) |-> SubSeq(path, 1, i + 1)]
       ELSE [i \in 1..Len(path) |-> SubSeq(path, 1, i)]

\* String#<=> on path strings whose segments are single characters: '/'
\* sorts before every letter.
charRank(segment) ==
  CASE segment = "" -> 0
    [] segment = "a" -> 1
    [] segment = "b" -> 2
    [] segment = "c" -> 3
    [] segment = "d" -> 4

RECURSIVE pathBefore(_, _)
pathBefore(p, q) ==
  IF p = <<>> THEN q # <<>>
  ELSE IF q = <<>> THEN FALSE
       ELSE IF Head(p) = Head(q) THEN pathBefore(Tail(p), Tail(q))
            ELSE charRank(Head(p)) < charRank(Head(q))

\* Array#sort of a set of distinct path strings.
RECURSIVE sortPaths(_)
sortPaths(paths) ==
  IF paths = {} THEN <<>>
  ELSE LET first == CHOOSE p \in paths : \A q \in paths \ {p} : pathBefore(p, q)
       IN <<first>> \o sortPaths(paths \ {first})

\* The each loop of coalesce_changes, lines 176-185: coalesced is the set of
\* keys of the hash.
RECURSIVE coalesceLoop(_, _, _)
coalesceLoop(changes, i, coalesced) ==
  IF i > Len(changes) THEN coalesced
  ELSE LET path == changes[i]
           matched == \E k \in DOMAIN descend(path) : descend(path)[k] \in coalesced
       IN IF path \in coalesced THEN coalesceLoop(changes, i + 1, coalesced)
          ELSE IF matched THEN coalesceLoop(changes, i + 1, coalesced)
               ELSE coalesceLoop(changes, i + 1, coalesced \cup {path})

\* coalesce_changes(changes), lines 173-188.
coalesce_changes(changes) == sortPaths(coalesceLoop(changes, 1, {}))

InitCoalesce == ConstructedOn(DefaultDebounce, {{pD}})

\* coalesce_changes(changes) is called.
ProbeCoalesce(changes) ==
  /\ probe' = [fn |-> "coalesce", arg |-> changes, out |-> coalesce_changes(changes)]
  /\ last' = Step("probe", 0, 0)
  /\ UNCHANGED <<syncVars, exists, emitted, debounce, options, cli, reported, watchVars>>

NextCoalesce == \E changes \in ChangeLists : ProbeCoalesce(changes)

SpecCoalesce == InitCoalesce /\ [][NextCoalesce]_vars

\* ---- Properties of sync() -------------------------------------------------

TopLevel(c) == calls[c].parent = 0
Settled(c) == calls[c].st \in {"ok", "fail"}
RecoverableCodes == {10, 11, 12, 23, 24}

EventsOf(ev, type, id) == {i \in 1..Len(ev) : ev[i].type = type /\ ev[i].id = id}
EventsOfType(ev, type) == {i \in 1..Len(ev) : ev[i].type = type}

\* C1: at every instant at most one transfer subprocess is alive, whatever
\* the interleaving of sync() calls and subprocess exits.
AtMostOneSubprocessAlive ==
  Cardinality({c \in CallIds : Alive(c)}) <= 1

\* C2: sync() calls run in FIFO order: when the run of a later-issued call has
\* spawned, every earlier-issued call has finished, its retry chain included.
SyncCallsRunFifo ==
  \A m, n \in CallIds :
    (m < n /\ TopLevel(m) /\ TopLevel(n) /\ calls[n].spawned) => Settled(m)

\* C3: a sync() call queued behind a live run starts its own run once that
\* run completes, whatever its outcome: a queued call never ends without
\* having started a run with its own paths.
QueuedCallStartsOwnRun ==
  \A c \in CallIds :
    (calls[c].on # 0 /\ Settled(c)) =>
      calls[c].started

\* C4: a recoverable exit (10, 11, 12, 23, 24) emits a warning, makes exactly
\* one more sync() call, whose paths are the full root, and is surfaced
\* neither as a rejection nor as an error event.
RecoverableExitRetriesFullRoot ==
  [][(last'.op = "close" /\ last'.code \in RecoverableCodes) =>
       LET c == last'.id
           r == Len(calls')
       IN /\ Cardinality(EventsOf(emitted', "warning", c)) = 1
          /\ r = Len(calls) + 1
          /\ calls'[r].origin = "retry"
          /\ calls'[r].parent = c
          /\ calls'[r].pathsToSync = <<Sentinel>>
          /\ EventsOf(emitted', "syncStart", r) # {}
          /\ \A i \in EventsOf(emitted', "syncStart", r) :
               emitted'[i].paths = <<Sentinel>>
          /\ calls'[r].st = "run"
          /\ EventsOfType(emitted', "error") = {}
          /\ calls'[c].st = "retry"
          /\ \A k \in CallIds : calls'[k].st = "fail" => calls[k].st = "fail"]_vars

RecoverableExitSeen ==
  /\ last.op = "close"
  /\ last.code \in RecoverableCodes
  /\ calls[last.id].st = "retry"
  /\ calls[Len(calls)].parent = last.id
  /\ Alive(Len(calls))

SuccessResolvesWithStats ==
  [][(last'.op = "close" /\ last'.code = 0) =>
       LET c == last'.id
       IN /\ calls'[c].st = "ok"
          /\ calls'[c].res = Stats(calls[c].items)
          /\ calls[c].parent # 0 =>
               /\ calls'[calls[c].parent].st = "ok"
               /\ calls'[calls[c].parent].res = Stats(calls[c].items)
          /\ Cardinality(EventsOf(emitted', "syncEnd", c)) = 1
          /\ \A i \in EventsOf(emitted', "syncEnd", c) :
               /\ emitted'[i].paths = calls[c].pathsToSync
               /\ emitted'[i].n = calls[c].items]_vars

SuccessSeen ==
  /\ last.op = "close"
  /\ last.code = 0
  /\ calls[last.id].st = "ok"
  /\ calls[last.id].res = Stats(MaxItems)
  /\ EventsOf(emitted, "syncEnd", last.id) # {}

\* C7: a spawn failure rejects the owning call with that error, starts no
\* retry, emits no syncEnd, and leaves the orchestrator idle, so that a
\* sync() issued afterwards runs at once.
SpawnFailureRejects ==
  [][last'.op = "error" =>
       LET c == last'.id
           later == Sync([calls |-> calls', sp |-> syncPromise', ev |-> <<>>,
                          fs |-> exists', opt |-> options'], "api", <<Sentinel>>, 0)
       IN /\ calls'[c].st = "fail"
          /\ calls'[c].res = SpawnError
          /\ Len(calls') = Len(calls)
          /\ \A k \in CallIds : calls'[k].spawned = calls[k].spawned
          /\ EventsOfType(emitted', "syncEnd") = {}
          /\ syncPromise' = 0
          /\ later.calls[Len(later.calls)].st = "run"]_vars

SpawnFailureSeen ==
  /\ last.op = "error"
  /\ calls[last.id].st = "fail"
  /\ calls[last.id].res = SpawnError
  /\ ~isSyncing

\* C8: when normalization yields an empty list, sync() emits syncEnd with
\* itemsSynced = 0, resolves with itemsSynced = 0 and spawns no subprocess.
EmptySyncSpawnsNothing ==
  /\ \A c \in CallIds :
       (calls[c].started /\ calls[c].pathsToSync = <<>>) =>
         /\ calls[c].st = "ok"
         /\ calls[c].res = Stats(0)
         /\ ~calls[c].spawned
  /\ \A i \in 1..Len(emitted) :
       (emitted[i].type = "syncStart" /\ emitted[i].paths = <<>>) =>
         /\ i < Len(emitted)
         /\ emitted[i + 1] = Ev("syncEnd", emitted[i].id, <<>>, 0)

EmptySyncSeen ==
  \E c \in CallIds :
    /\ calls[c].pathsToSync = <<>>
    /\ calls[c].started
    /\ ~calls[c].spawned
    /\ calls[c].st = "ok"
    /\ EventsOf(emitted, "syncEnd", c) # {}

\* C9: isSyncing is true while a transfer subprocess is alive and false once
\* every started sync() call has completed.
IsSyncingExact ==
  /\ (\E c \in CallIds : Alive(c)) => isSyncing
  /\ (\A c \in CallIds : Settled(c)) => ~isSyncing

\* ---- Properties of the pending set ----------------------------------------

\* p is one of the parent paths of q.
IsAncestor(p, q) == p \in SeqRange(getParentPaths(q))

\* C10: after every watcher event no two members of the pending set are in an
\* ancestor/descendant relationship.
PendingHasNoAncestorPair ==
  \A p, q \in SeqRange(pendingSyncPaths) : ~IsAncestor(p, q)

\* C11: whenever the sentinel '.' is in the pending set it is the set's only
\* member.
SentinelIsSoleMember ==
  Sentinel \in SeqRange(pendingSyncPaths) => pendingSyncPaths = <<Sentinel>>

\* The turn just taken ran the 'all' handler for one of the given events.
EventTaken(names) == last'.op = "event" /\ last'.name \in names

\* C12: an add, addDir or change event for a path one of whose ancestors is
\* pending leaves the pending set exactly as it was.
DescendantEventKeepsPending ==
  [][(/\ EventTaken({"add", "addDir", "change"})
      /\ \E p \in SeqRange(pendingSyncPaths) : IsAncestor(p, last'.path))
       => pendingSyncPaths' = pendingSyncPaths]_vars

DescendantEventSeen ==
  /\ last.op = "event"
  /\ last.name = "change"
  /\ last.path = pABC
  /\ pendingSyncPaths = <<pA>>

\* C13: an unlink or unlinkDir event for p, taken while the sentinel is not
\* pending, leaves p out of the pending set and leaves dirname(p) in it
\* unless an ancestor of dirname(p) was already pending.
UnlinkReplacesPathByDirname ==
  [][(/\ EventTaken({"unlink", "unlinkDir"})
      /\ Sentinel \notin SeqRange(pendingSyncPaths))
       => LET p == last'.path
              d == posixDirname(p)
          IN /\ p \notin SeqRange(pendingSyncPaths')
             /\ (\A a \in SeqRange(pendingSyncPaths) : ~IsAncestor(a, d))
                  => d \in SeqRange(pendingSyncPaths')]_vars

UnlinkSeen ==
  /\ last.op = "event"
  /\ last.name = "unlink"
  /\ last.path = pABC
  /\ pendingSyncPaths = <<pD, pAB>>

\* ---- Properties of the debounce timer ------------------------------------

\* C14: every delay the scheduler computes is at most debounceMax, and a call
\* of the scheduler that finds the timer armed computes a delay no smaller
\* than the one it replaces.
DebounceDelayMonotoneAndCapped ==
  [][pendingSyncTimeout'.armed =>
       /\ pendingSyncTimeout'.delay <= debounce.max
       /\ (pendingSyncTimeout.armed /\ debounceCount' = debounceCount + 1)
            => pendingSyncTimeout'.delay >= pendingSyncTimeout.delay]_vars

DebounceCapSeen ==
  /\ debounce = [min |-> 3, max |-> 10]
  /\ last.op = "event"
  /\ pendingSyncTimeout.armed
  /\ debounceCount = 4
  /\ pendingSyncTimeout.delay = debounce.max

\* C15: events only gather paths; the timer elapsing with no sync in flight
\* starts exactly one sync() call, whose path list holds every pending path
\* when all of them exist, and leaves the pending set empty and the timer
\* unarmed.
BurstTriggersOneSync ==
  [][/\ EventTaken(EventNames) => calls' = calls
     /\ (last'.op = "timer" /\ ~isSyncing) =>
          /\ Len(calls') = Len(calls) + 1
          /\ calls'[Len(calls')].origin = "timer"
          /\ SeqRange(pendingSyncPaths) \subseteq exists
               => SeqRange(pendingSyncPaths) \subseteq
                    SeqRange(calls'[Len(calls')].pathsToSync)
          /\ pendingSyncPaths' = <<>>
          /\ ~pendingSyncTimeout'.armed]_vars

BurstSyncSeen ==
  /\ last.op = "timer"
  /\ Len(calls) = 1
  /\ calls[1].origin = "timer"
  /\ calls[1].spawned
  /\ calls[1].pathsToSync = <<pA, pD>>
  /\ pendingSyncPaths = <<>>

\* C16: unwatch() leaves no debounce timer armed and leaves the pending set
\* as it was.
UnwatchCancelsTimer ==
  [][last'.op = "unwatch" =>
       /\ ~pendingSyncTimeout'.armed
       /\ pendingSyncPaths' = pendingSyncPaths]_vars

\* ---- Properties of the path helpers --------------------------------------

\* The path itself when it exists, else its deepest existing parent path,
\* else the sentinel.
DeepestExistingPath(fs, path) ==
  IF path \in fs THEN path
  ELSE LET parents == getParentPaths(path)
           found == {i \in DOMAIN parents : parents[i] \in fs}
       IN IF found = {} THEN Sentinel
          ELSE parents[CHOOSE i \in found : \A j \in found : j <= i]

\* C17: getNearestExistingPath returns the path itself when it exists,
\* otherwise its deepest existing ancestor, and the sentinel only when
\* neither the path nor any ancestor exists.
NearestIsDeepestExisting ==
  probe.fn = "nearest" =>
    probe.out = <<DeepestExistingPath(exists, probe.arg[1])>>

\* C18: normalizePathsToSync applied to its own result returns that result.
NormalizeIsIdempotent ==
  probe.fn = "normalize" =>
    normalizePathsToSync(exists, probe.out) = probe.out

NormalizeSeen ==
  /\ probe.fn = "normalize"
  /\ exists = {pA, pD}
  /\ probe.arg = <<pD, pA, pD>>
  /\ probe.out = <<pD, pA>>

\* C19: normalizePathsToSync returns exactly ['.'] when the input holds the
\* sentinel or some input path has no existing path or ancestor to resolve
\* to; otherwise the result holds no sentinel and no duplicates.
NormalizeCollapsesExactly ==
  probe.fn = "normalize" =>
    LET in == probe.arg
        out == probe.out
    IN IF \/ Sentinel \in SeqRange(in)
          \/ \E i \in DOMAIN in : DeepestExistingPath(exists, in[i]) = Sentinel
       THEN out = <<Sentinel>>
       ELSE /\ Sentinel \notin SeqRange(out)
            /\ \A i, j \in DOMAIN out : out[i] = out[j] => i = j

\* ---- Properties of the reported statistics -------------------------------

\* The retry call started by the close handler of c, if any.
RetryOf(c) == {r \in CallIds : calls[r].parent = c}

\* Items counted by the run of c and by the runs that retried it.
RECURSIVE ChainItems(_)
ChainItems(c) ==
  calls[c].items +
    (IF RetryOf(c) = {} THEN 0 ELSE ChainItems(CHOOSE r \in RetryOf(c) : TRUE))

\* C20: once a call whose run was superseded by a retry is fulfilled, the
\* items its own run counted were carried by a syncEnd event for that run or
\* are included in the stats the call resolved with.
SupersededCountReported ==
  \A c \in CallIds :
    (RetryOf(c) # {} /\ calls[c].st = "ok") =>
      \/ <<c, calls[c].items>> \in reported
      \/ calls[c].res.n >= ChainItems(c)

\* ---- Properties of the ignore rules and the options ----------------------

MaxSyncLimitCollapses ==
  options.maxSyncLimit > 0 =>
    \A c \in CallIds :
      calls[c].started =>
        \/ calls[c].pathsToSync = <<Sentinel>>
        \/ Len(calls[c].pathsToSync) <= options.maxSyncLimit

\* C23: the subprocess is given --delete-excluded exactly when the
\* deleteIgnored option is set.
DeleteExcludedOnlyWhenConfigured ==
  \A c \in CallIds :
    calls[c].spawned =>
      (<<"--delete-excluded">> \in SeqRange(calls[c].rsyncArgs) <=> options.deleteIgnored)

\* ---- Properties of the watcher's handler and of the scheduler ------------

\* C24: an event taken while the sentinel is pending changes neither the
\* pending set, the timer, the reset counter nor the live timers, and emits
\* nothing.
SentinelPendingEventIsNoOp ==
  [][(EventTaken(EventNames) /\ Sentinel \in SeqRange(pendingSyncPaths)) =>
       /\ pendingSyncPaths' = pendingSyncPaths
       /\ pendingSyncTimeout' = pendingSyncTimeout
       /\ debounceCount' = debounceCount
       /\ timers' = timers
       /\ emitted' = <<>>]_vars

SentinelPendingEventSeen ==
  /\ last.op = "event"
  /\ last.name = "change"
  /\ pendingSyncPaths = <<Sentinel>>
  /\ pendingSyncTimeout.armed

\* C25: an unlink or unlinkDir of p taken while an ancestor of dirname(p) is
\* pending does not add dirname(p) to the pending set.
UnlinkChecksAncestors ==
  [][(/\ EventTaken({"unlink", "unlinkDir"})
      /\ Sentinel \notin SeqRange(pendingSyncPaths)
      /\ \E a \in SeqRange(pendingSyncPaths) : IsAncestor(a, posixDirname(last'.path)))
       => (posixDirname(last'.path) \in SeqRange(pendingSyncPaths')
            => posixDirname(last'.path) \in SeqRange(pendingSyncPaths))]_vars

\* The turn just taken called _scheduleSync(): an event taken without the
\* sentinel pending, or the timer callback finding a sync in progress.
ScheduleCalled ==
  \/ EventTaken(EventNames) /\ Sentinel \notin SeqRange(pendingSyncPaths)
  \/ last'.op = "timer" /\ isSyncing

\* this._pendingSyncTimeout was set when that call began (the timer callback
\* sets it to null first).
ArmedAtSchedule == last'.op = "event" /\ pendingSyncTimeout.armed

\* d is min * 1.5^n rounded to the nearest integer, halves upwards, or max
\* if that is smaller.
IsRoundedDelay(d, min, max, n) ==
  LET num == min * Pow(3, n)
      den == Pow(2, n)
  IN IF num >= max * den THEN d = max
     ELSE /\ 2 * d * den <= 2 * num + den
          /\ 2 * num + den < 2 * (d + 1) * den

\* C26: a _scheduleSync call sets the counter to 0 if no timer was armed and
\* adds 1 to it if one was, and arms a timer whose delay is
\* round(min(debounceMax, debounceMin * 1.5^counter)) for the new counter.
ScheduleCountsAndDelays ==
  [][ScheduleCalled =>
       /\ debounceCount' = (IF ArmedAtSchedule THEN debounceCount + 1 ELSE 0)
       /\ pendingSyncTimeout'.armed
       /\ IsRoundedDelay(pendingSyncTimeout'.delay, debounce.min, debounce.max,
                         debounceCount')]_vars

ScheduleRoundedSeen ==
  /\ debounce = [min |-> 50, max |-> 2000]
  /\ last.op = "event"
  /\ debounceCount = 2
  /\ pendingSyncTimeout = [armed |-> TRUE, delay |-> 113]

\* C27: a _scheduleSync call emits one debounce event, carrying the size of
\* the pending set, exactly when a timer was armed and the incremented
\* counter is at least 8, and emits nothing otherwise; either way the
\* counter advances by one from an armed timer, the pending set is the one
\* the handler left and a timer is armed afterwards.
DebounceEventExactlyFromEight ==
  [][ScheduleCalled =>
       /\ emitted' = (IF ArmedAtSchedule /\ debounceCount + 1 >= 8
                      THEN <<Ev("debounce", 0, <<>>, Len(pendingSyncPaths'))>>
                      ELSE <<>>)
       /\ ArmedAtSchedule => debounceCount' = debounceCount + 1
       /\ last'.op = "timer" => pendingSyncPaths' = pendingSyncPaths
       /\ pendingSyncTimeout'.armed]_vars

DebounceEventSeen ==
  /\ last.op = "event"
  /\ debounceCount = 8
  /\ pendingSyncPaths = <<pD>>
  /\ emitted = <<Ev("debounce", 0, <<>>, 1)>>

\* C28: the timer firing while a sync is in progress calls no sync(), leaves
\* the pending set as it was and arms a new timer in the same turn.
TimerDuringSyncRearms ==
  [][(last'.op = "timer" /\ isSyncing) =>
       /\ calls' = calls
       /\ syncPromise' = syncPromise
       /\ pendingSyncPaths' = pendingSyncPaths
       /\ pendingSyncTimeout'.armed
       /\ timers' = timers]_vars

TimerDuringSyncSeen ==
  /\ last.op = "timer"
  /\ isSyncing
  /\ pendingSyncPaths = <<pD>>
  /\ pendingSyncTimeout.armed
  /\ debounceCount = 0
  /\ \E c \in CallIds : calls[c].origin = "timer" /\ Alive(c)

\* C29: the timer firing with no sync in progress issues exactly one sync()
\* call, started in the same turn on the pending set as it was, and leaves
\* the pending set empty; the path list of a started call never changes.
TimerSubmitsPendingOnce ==
  [][/\ (last'.op = "timer" /\ ~isSyncing) =>
          /\ Len(calls') = Len(calls) + 1
          /\ calls'[Len(calls')].origin = "timer"
          /\ calls'[Len(calls')].started
          /\ calls'[Len(calls')].pathsToSync =
               normalizePathsToSync(exists, pendingSyncPaths)
          /\ pendingSyncPaths' = <<>>
     /\ \A c \in DOMAIN calls :
          calls[c].started => calls'[c].pathsToSync = calls[c].pathsToSync]_vars

SecondTimerSyncSeen ==
  /\ last.op = "timer"
  /\ Len(calls) = 2
  /\ calls[1].origin = "timer"
  /\ calls[1].pathsToSync = <<pA>>
  /\ calls[2].origin = "timer"
  /\ calls[2].started
  /\ calls[2].pathsToSync = <<pD>>
  /\ pendingSyncPaths = <<>>

\* C30: at most one timer is live, and one is live exactly when
\* this._pendingSyncTimeout is set.
SingleTimer ==
  /\ timers <= 1
  /\ pendingSyncTimeout.armed <=> timers = 1

TimerRearmedSeen ==
  /\ last.op = "event"
  /\ debounceCount = 3
  /\ pendingSyncTimeout.armed
  /\ timers = 1

\* ---- Scheduler, liveness, output and lifecycle ----------------------------

\* C31: between handlers and timer callbacks, a non-empty pending set always
\* has a debounce timer armed; paths are never left pending with no timer.
PendingImpliesTimerArmed ==
  pendingSyncPaths # <<>> =>
    /\ pendingSyncTimeout.armed
    /\ timers > 0

\* Paths gathered during a sync are still pending after the timer callback ran
\* and found the sync in progress.
PendingKeptAcrossTimer ==
  /\ last.op = "timer"
  /\ isSyncing
  /\ pendingSyncPaths # <<>>
  /\ pendingSyncTimeout.armed

\* C32: once events stop, every path recorded in the pending set is eventually
\* handed to a sync run started by the timer callback, whatever sync() calls
\* came before.
PendingEventuallySubmitted ==
  (pendingSyncPaths # <<>>) ~>
    (/\ pendingSyncPaths = <<>>
     /\ \E c \in CallIds : calls[c].origin = "timer" /\ calls[c].started)

\* The outcome the close handler gives run c for an exit code, from the state
\* before the exit.
ClassifiedNormally(c, code) ==
  IF code = 0
  THEN calls'[c].st = "ok" /\ calls'[c].res = Stats(calls[c].items)
  ELSE IF code \in RecoverableCodes
       THEN /\ calls'[c].st = "retry"
            /\ \E r \in 1..Len(calls') : calls'[r].parent = c /\ calls'[r].st = "run"
       ELSE calls'[c].st = "fail" /\ calls'[c].res = ExitError(code)

\* C33: unwatch() leaves every sync() call and the transfer in flight as
\* they are, and a subprocess that exits while the watcher is closed is
\* classified by its exit code as always.
UnwatchLeavesTransferAlone ==
  [][/\ last'.op = "unwatch" => calls' = calls /\ syncPromise' = syncPromise
     /\ (last'.op = "close" /\ ~watcher) => ClassifiedNormally(last'.id, last'.code)]_vars

\* unwatch() was called while a transfer subprocess was alive.
UnwatchDuringTransferSeen ==
  /\ last.op = "unwatch"
  /\ ~watcher
  /\ \E c \in CallIds : Alive(c) /\ syncPromise = c

OperationMarkers == {"del.", "send"}

\* C34: a run's item count grows by one with every stdout line whose first
\* token is 'del.' or 'send' and with nothing else, starting from zero, and a
\* successful exit reports that count; every other stdout line and every
\* stderr line is emitted as an event with the line intact and leaves every
\* call, and so every outcome, as it was.
ItemsCountMarkerLines ==
  [][/\ last'.op = "stdout" =>
          LET c == last'.id
              line == last'.line
              counted == line[1] \in OperationMarkers
          IN /\ calls' = [calls EXCEPT ![c].items = @ + (IF counted THEN 1 ELSE 0)]
             /\ syncPromise' = syncPromise
             /\ Len(emitted') = 1
             /\ emitted'[1].type = "rsyncStdout"
             /\ ~counted => emitted'[1].paths = <<line>>
     /\ last'.op = "stderr" =>
          /\ calls' = calls
          /\ syncPromise' = syncPromise
          /\ emitted' = <<Ev("rsyncStderr", last'.id, <<last'.line>>, 0)>>
     /\ \A c \in 1..Len(calls') :
          (calls'[c].spawned /\ (c \in CallIds => ~calls[c].spawned)) => calls'[c].items = 0
     /\ (last'.op = "close" /\ last'.code = 0) =>
          calls'[last'.id].res = Stats(calls[last'.id].items)]_vars

\* A run that has counted one stdout line writes a stderr line that starts
\* with an operation marker.
StderrAfterCountedLineSeen ==
  /\ last.op = "stderr"
  /\ last.line[1] \in OperationMarkers
  /\ calls[last.id].items = 1
  /\ Alive(last.id)

\* C35: the argument list of every spawned subprocess is the baseline flags,
\* then --dry-run exactly when dryRun is set, then the exclude filter exactly
\* when ignorePath is set, then the source root with its trailing separator
\* and the destination as the last two arguments.
ArgsFollowConfiguration ==
  \A c \in CallIds :
    calls[c].spawned =>
      LET args == calls[c].rsyncArgs
          n == Len(RSYNC_DEFAULT_ARGS)
          d == IF options.dryRun THEN 1 ELSE 0
          f == IF options.ignorePath # "" THEN 1 ELSE 0
      IN /\ Len(args) = n + d + f + 2
         /\ \A i \in 1..n : args[i] = <<RSYNC_DEFAULT_ARGS[i]>>
         /\ <<"--dry-run">> \in SeqRange(args) <=> options.dryRun
         /\ d = 1 => args[n + 1] = <<"--dry-run">>
         /\ (\E i \in 1..Len(args) : args[i][1] = "--filter=merge,e- ") <=>
              options.ignorePath # ""
         /\ f = 1 => args[n + d + 1] = <<"--filter=merge,e- ", options.ignorePath>>
         /\ args[Len(args) - 1] = <<"source/">>
         /\ args[Len(args)] = <<"dest">>

\* A subprocess was spawned under dryRun with an ignore file.
DryRunWithFilterSpawned ==
  /\ options.dryRun
  /\ options.ignorePath # ""
  /\ \E c \in CallIds : calls[c].spawned /\ Len(calls[c].rsyncArgs) = 17

\* The path without the separator that ends it ("a/b/" names "a/b").
WithoutTrailingSeparator(path) ==
  IF Len(path) > 1 /\ path[Len(path)] = "" /\ path # Root
  THEN SubSeq(path, 1, Len(path) - 1)
  ELSE path

\* The proper ancestors of a normalized path, root-most first.
ProperAncestors(path) ==
  IF path[1] = ""
  THEN IF path = Root THEN <<>>
       ELSE <<Root>> \o [i \in 1..(Len(path) - 2) |-> SubSeq(path, 1, i + 1)]
  ELSE [i \in 1..(Len(path) - 1) |-> SubSeq(path, 1, i)]

\* C36: getParentPaths(path) is exactly the sequence of proper ancestors of
\* the normalized path, from the root-most to the immediate parent, which is
\* empty for a relative path of one segment.
ParentPathsAreProperAncestors ==
  probe.fn = "parents" =>
    probe.out = ProperAncestors(WithoutTrailingSeparator(posixNormalize(probe.arg[1])))

LifecycleEventsOrdered ==
  [][/\ \A c \in 1..Len(calls') :
          LET starts == EventsOf(emitted', "syncStart", c)
              ends == EventsOf(emitted', "syncEnd", c)
              wasStarted == c \in CallIds /\ calls[c].started
              wasSpawned == c \in CallIds /\ calls[c].spawned
          IN /\ Cardinality(starts) = (IF calls'[c].started /\ ~wasStarted THEN 1 ELSE 0)
             /\ \A j \in starts : emitted'[j].paths = calls'[c].pathsToSync
             /\ wasStarted => /\ calls'[c].started
                              /\ calls'[c].pathsToSync = calls[c].pathsToSync
             /\ (calls'[c].spawned /\ ~wasSpawned) => starts # {}
             /\ Cardinality(ends) <= 1
             /\ \A i \in ends : /\ calls'[c].started
                                 /\ emitted'[i].paths = calls'[c].pathsToSync
                                 /\ \A j \in starts : j < i
                                 /\ calls'[c].st = "ok"
             /\ (c \in CallIds /\ calls[c].st \in {"retry", "fail", "ok"}) => ends = {}
     /\ (last'.op = "close" /\ last'.code # 0) =>
          EventsOf(emitted', "syncEnd", last'.id) = {}]_vars

\* A recoverable exit: a warning for the run, the syncStart of its retry and
\* no syncEnd.
RecoverableExitWithoutSyncEndSeen ==
  /\ last.op = "close"
  /\ last.code = 23
  /\ EventsOf(emitted, "warning", last.id) # {}
  /\ EventsOfType(emitted, "syncEnd") = {}
  /\ \E r \in RetryOf(last.id) : EventsOf(emitted, "syncStart", r) # {}

\* C39: coalesce_changes returns a sorted list without duplicates in which
\* no path is a descendant of another returned path, whatever the order of
\* its input.
CoalescedHasNoDescendants ==
  probe.fn = "coalesce" =>
    /\ \A i, j \in DOMAIN probe.out : i < j => pathBefore(probe.out[i], probe.out[j])
    /\ \A p, q \in SeqRange(probe.out) : p # q => p \notin SeqRange(descend(q))

RECURSIVE SumSeq(_)
SumSeq(s) == IF s = <<>> THEN 0 ELSE Head(s) + SumSeq(Tail(s))

CountsConserved(K) == SumSeq(K.reports) + K.syncReportItemCount = K.synced

====
